---- MODULE Spec2Model ----
(***************************************************************************)
(* FX rate ETL pipeline (src/__main__.py): one process run connects to the *)
(* cache (Redis), reconciles the cache with the durable JSON document for  *)
(* today, and fetches, transforms and stores fresh rates when the          *)
(* reconciliation result is falsy.                                         *)
(*                                                                         *)
(* Python values are modelled as follows.                                  *)
(*   rate mapping (dict str -> number) : a set of <<currency, rate>> pairs *)
(*                                       with unique currencies            *)
(*   JSON text of a rate mapping       : a sequence of tokens, an opening  *)
(*                                       brace, the pairs, a closing brace *)
(*   durable document in memory        : a sequence of <<date, mapping>>   *)
(*                                       in insertion order (Python dict)  *)
(*   durable document on disk          : a sequence of <<date, JSON text>> *)
(*   cache database                    : a function from the keys present  *)
(*                                       to JSON text                      *)
(***************************************************************************)
EXTENDS Integers, Sequences, FiniteSets, TLC

\* ---------------------------------------------------------------- bounds
MaxDay == 2

\* ------------------------------------------------------ program constants
max_retries == 5
base_delay == 60

Days == 1..MaxDay
Currencies == {"USD", "EUR"}
Rates == {1, 2}

VARIABLES
    TODAY,            \* the date the running process computed at start-up
    json_file,        \* JSON_FILE on disk: [status, text]
    redis_db,         \* the cache database: key -> JSON text
    redis_up,         \* is the cache backend reachable right now
    REDIS_CLIENT,     \* "None" or "client"
    pc,               \* position of the process in __main__
    latest_rates,     \* result of sync_data_sources
    attempt,          \* loop index of extract_rates
    sleeps,           \* the sleeps of extract_rates in this run: the loop index
                      \* of the failed attempt, and the time slept after it
    requests,         \* the number of HTTP requests made in this run
    raw_data,         \* result of extract_rates
    transformed_data, \* result of transform_data
    exc,              \* the exception that ended the run, if any
    start0            \* the two stores as they were when this run started

vars == <<TODAY, json_file, redis_db, redis_up, REDIS_CLIENT, pc,
          latest_rates, attempt, sleeps, requests, raw_data, transformed_data,
          exc, start0>>

\* ------------------------------------------------------------ Python values
NoExc == "none"

\* A dict str -> number: no currency appears twice.
IsMapping(S) == \A p \in S : \A q \in S : p[1] = q[1] => p = q
Mappings == {S \in SUBSET (Currencies \X Rates) : IsMapping(S)}

\* json.dumps of a rate mapping, and json.loads of that text.
RECURSIVE Items(_)
Items(S) == IF S = {} THEN <<>>
            ELSE LET p == CHOOSE q \in S : TRUE IN <<p>> \o Items(S \ {p})
json_dumps(S) == <<<<"{", 0>>>> \o Items(S) \o <<<<"}", 0>>>>
json_loads(t) == {t[i] : i \in 2..(Len(t) - 1)}

\* json.dump / json.load of the whole durable document.
json_dump(data) == [i \in 1..Len(data) |-> <<data[i][1], json_dumps(data[i][2])>>]
json_load(text) == [i \in 1..Len(text) |-> <<text[i][1], json_loads(text[i][2])>>]

\* Operations of the insertion-ordered dict that holds the document.
DictKeys(data) == {data[i][1] : i \in 1..Len(data)}
DictGet(data, k) == data[CHOOSE i \in 1..Len(data) : data[i][1] = k][2]
\* An update that appends the pair even when the key is present.
DictUpdateAppend(data, k, v) == Append(data, <<k, v>>)

\* An update that keeps the new pair only.
DictUpdateReplaceAll(data, k, v) == <<<<k, v>>>>

\* data.update(new_data): the value under a key present is replaced where
\* it stands, a new key is added at the end.
DictUpdate(data, k, v) ==
    IF k \in DictKeys(data)
    THEN [i \in 1..Len(data) |-> IF data[i][1] = k THEN <<k, v>> ELSE data[i]]
    ELSE Append(data, <<k, v>>)

\* Values returned by sync_data_sources: True, False or a rate mapping.
PyTrue == [kind |-> "True", rec |-> {}]
PyFalse == [kind |-> "False", rec |-> {}]
PyDict(S) == [kind |-> "dict", rec |-> S]

\* Python truth value of such a result ("if not latest_rates").
Truthy(v) == v.kind = "True" \/ (v.kind = "dict" /\ v.rec # {})

\* A raw API response: a dict that may hold base_code, rates, other fields.
NoField == "<missing>"
PyNone == [kind |-> "None", base_code |-> NoField, has_rates |-> FALSE,
           rates |-> {}, other |-> FALSE]
Response(b, h, r, o) == [kind |-> "dict", base_code |-> b, has_rates |-> h,
                         rates |-> r, other |-> o]
\* The responses the remote source is taken to give: well-formed ones, ones
\* whose mapping lacks the base currency or is empty, and malformed ones
\* without base_code, without rates, with unrelated fields only, or empty.
Responses ==
    { Response("USD", TRUE, {<<"USD", 1>>, <<"EUR", 1>>}, TRUE),
      Response("USD", TRUE, {<<"USD", 1>>, <<"EUR", 2>>}, TRUE),
      Response("USD", TRUE, {<<"EUR", 1>>}, TRUE),
      Response("USD", TRUE, {}, TRUE),
      Response(NoField, TRUE, {<<"USD", 1>>, <<"EUR", 1>>}, TRUE),
      Response("USD", FALSE, {}, TRUE),
      Response(NoField, FALSE, {}, TRUE),
      Response(NoField, FALSE, {}, FALSE) }

\* Python truth value of raw_data ("if raw_data"): None and {} are falsy.
RawTruthy(raw) ==
    raw.kind = "dict" /\ (raw.base_code # NoField \/ raw.has_rates \/ raw.other)

\* A snapshot {date: mapping}, as built by transform_data.
Snapshot(d, S) == [date |-> d, rec |-> S]
NoSnapshot == Snapshot(0, {})

\* The file on disk.
NoFile == [status |-> "absent", text |-> <<>>]
File(text) == [status |-> "ok", text |-> text]

\* The cache database.
EmptyDb == [k \in {} |-> <<>>]
DbSet(db, k, v) == [x \in (DOMAIN db) \cup {k} |-> IF x = k THEN v ELSE db[x]]
DbDel(db, k) == [x \in (DOMAIN db) \ {k} |-> db[x]]

\* "TODAY in data" on a readable, well-formed document, and data[TODAY].
HasToday(file, today) ==
    file.status = "ok" /\ today \in DictKeys(json_load(file.text))
RecordOf(file, today) == DictGet(json_load(file.text), today)

\* The cache holds a value under the key, and json.loads of that value.
CacheHas(db, today) == today \in DOMAIN db
CacheRecord(db, today) == json_loads(db[today])

\* ------------------------------------------------------------- the functions
\* A function's outcome: the exception it raised (NoExc when it returned),
\* its return value, and the two stores as it left them.
Outcome(e, r, f, db) == [exc |-> e, ret |-> r, file |-> f, db |-> db]

\* check_existing_data_in_json: only IOError is caught around open/json.load.
check_existing_data_in_json(file, today) ==
    CASE file.status = "absent"     -> [exc |-> NoExc, ret |-> FALSE]
      [] file.status = "unreadable" -> [exc |-> NoExc, ret |-> FALSE]
      [] file.status = "malformed"  -> [exc |-> "JSONDecodeError", ret |-> FALSE]
      [] OTHER -> [exc |-> NoExc, ret |-> today \in DictKeys(json_load(file.text))]

\* check_existing_data_in_redis: REDIS_CLIENT.get is not guarded.
check_existing_data_in_redis(client, up, db, today) ==
    IF client = "None" THEN [exc |-> NoExc, ret |-> FALSE]
    ELSE IF ~up THEN [exc |-> "ConnectionError", ret |-> FALSE]
    ELSE [exc |-> NoExc, ret |-> today \in DOMAIN db /\ Len(db[today]) > 0]

\* save_to_redis: a no-op without a client, else SET date_key <json text>.
save_to_redis(client, up, db, new_data) ==
    IF client = "None" THEN [exc |-> NoExc, db |-> db]
    ELSE IF ~up THEN [exc |-> "ConnectionError", db |-> db]
    ELSE [exc |-> NoExc, db |-> DbSet(db, new_data.date, json_dumps(new_data.rec))]

\* A guard that looks at the first key of the document instead of the last.
DedupGuardFirst(data, new_date) ==
    IF Len(data) = 0 THEN TRUE ELSE data[1][1] # new_date

\* A write without the dedup guard.
DedupGuardOff(data, new_date) == TRUE

\* The dedup guard of save_to_json: last_date != new_date.
DedupGuard(data, new_date) ==
    IF Len(data) = 0 THEN TRUE ELSE data[Len(data)][1] # new_date

\* save_to_json: create the document when missing, load it, and rewrite it
\* with the snapshot unless the snapshot's date is the last key.
save_to_json(file, new_data) ==
    LET created == IF file.status = "absent" THEN File(json_dump(<<>>)) ELSE file
    IN  CASE created.status = "unreadable" -> [exc |-> "IOError", file |-> created]
          [] created.status = "malformed" -> [exc |-> "JSONDecodeError", file |-> created]
          [] OTHER ->
              LET data == json_load(created.text)
              IN  IF DedupGuard(data, new_data.date)
                  THEN [exc |-> NoExc,
                        file |-> File(json_dump(DictUpdate(data, new_data.date, new_data.rec)))]
                  ELSE [exc |-> NoExc, file |-> created]

\* sync_data_sources: the four cases over the two existence checks.
sync_data_sources(file, client, up, db, today) ==
    LET cj == check_existing_data_in_json(file, today)
        cr == check_existing_data_in_redis(client, up, db, today)
    IN  IF cj.exc # NoExc THEN Outcome(cj.exc, PyFalse, file, db)
        ELSE IF cr.exc # NoExc THEN Outcome(cr.exc, PyFalse, file, db)
        ELSE IF cj.ret /\ cr.ret THEN Outcome(NoExc, PyTrue, file, db)
        ELSE IF cj.ret /\ ~cr.ret THEN
            LET rec == DictGet(json_load(file.text), today)
                w == save_to_redis(client, up, db, Snapshot(today, rec))
            IN  Outcome(w.exc, IF w.exc = NoExc THEN PyDict(rec) ELSE PyFalse, file, w.db)
        ELSE IF cr.ret /\ ~cj.ret THEN
            IF ~up THEN Outcome("ConnectionError", PyFalse, file, db)
            ELSE LET stored_data == json_loads(db[today])
                     w == save_to_json(file, Snapshot(today, stored_data))
                 IN  Outcome(w.exc, IF w.exc = NoExc THEN PyDict(stored_data) ELSE PyFalse,
                             w.file, db)
        ELSE Outcome(NoExc, PyFalse, file, db)

\* A loop that runs once more than range(n) does.
InRangeInclusive(a, n) == a <= n

\* extract_rates: "for attempt in range(max_retries)" has another iteration.
InRange(a, n) == a < n

\* A backoff that grows by base_delay instead of doubling.
wait_time_linear(a, delay) == (2 * a) * delay

\* extract_rates: the sleep after the failed attempt with loop index a.
wait_time(a, delay) == (2 ^ a) * delay

\* A transform that leaves the base currency in the record.
transform_data_keep(data, today) ==
    [ret |-> Snapshot(today, IF data.has_rates THEN data.rates ELSE {}),
     data |-> data]

\* transform_data: deletes the base currency from the response's own rates
\* dict (a fresh {} when the response has no rates) and wraps it under TODAY.
transform_data(data, today) ==
    LET rates == IF data.has_rates THEN data.rates ELSE {}
        kept == {p \in rates : p[1] # data.base_code}
    IN  [ret |-> Snapshot(today, kept),
         data |-> IF data.has_rates THEN [data EXCEPT !.rates = kept] ELSE data]

\* __main__: the branch taken on the result of sync_data_sources.
AfterSync(latest) == IF ~Truthy(latest) THEN "extract" ELSE "done"

\* A main that transforms whatever extract_rates returned.
AfterExtractUnchecked(raw) == "transform"

\* __main__: the branch taken on the result of extract_rates.
AfterExtract(raw) == IF RawTruthy(raw) THEN "transform" ELSE "done"

\* ------------------------------------------------------------------- state
Stores == [file |-> json_file, db |-> redis_db]

Init ==
    /\ TODAY = 1
    /\ json_file = NoFile
    /\ redis_db = EmptyDb
    /\ redis_up = TRUE
    /\ REDIS_CLIENT = "None"
    /\ pc = "idle"
    /\ latest_rates = PyFalse
    /\ attempt = 0
    /\ sleeps = <<>>
    /\ requests = 0
    /\ raw_data = PyNone
    /\ transformed_data = NoSnapshot
    /\ exc = NoExc
    /\ start0 = [file |-> NoFile, db |-> EmptyDb]

\* --------------------------------------------------------------- the process
\* A new process starts: the module level code runs.
Start ==
    /\ pc = "idle"
    /\ pc' = "initialize_redis_connection"
    /\ start0' = Stores
    /\ UNCHANGED <<TODAY, json_file, redis_db, redis_up, REDIS_CLIENT,
                   latest_rates, attempt, sleeps, requests, raw_data,
                   transformed_data, exc>>

\* The process ends, normally or by an exception: its variables are gone.
Exit ==
    /\ pc \in {"done", "raised"}
    /\ pc' = "idle"
    /\ REDIS_CLIENT' = "None"
    /\ latest_rates' = PyFalse
    /\ attempt' = 0
    /\ sleeps' = <<>>
    /\ requests' = 0
    /\ raw_data' = PyNone
    /\ transformed_data' = NoSnapshot
    /\ exc' = NoExc
    /\ start0' = [file |-> NoFile, db |-> EmptyDb]
    /\ UNCHANGED <<TODAY, json_file, redis_db, redis_up>>

\* initialize_redis_connection: ping; None when the backend does not answer.
initialize_redis_connection ==
    /\ pc = "initialize_redis_connection"
    /\ REDIS_CLIENT' = IF redis_up THEN "client" ELSE "None"
    /\ pc' = "sync_data_sources"
    /\ UNCHANGED <<TODAY, json_file, redis_db, redis_up, latest_rates, attempt,
                   sleeps, requests, raw_data, transformed_data, exc, start0>>

\* latest_rates = sync_data_sources()
SyncDataSources ==
    /\ pc = "sync_data_sources"
    /\ LET r == sync_data_sources(json_file, REDIS_CLIENT, redis_up, redis_db, TODAY)
       IN  /\ json_file' = r.file
           /\ redis_db' = r.db
           /\ latest_rates' = r.ret
           /\ exc' = r.exc
           /\ pc' = IF r.exc # NoExc THEN "raised" ELSE "if_not_latest_rates"
    /\ UNCHANGED <<TODAY, redis_up, REDIS_CLIENT, attempt, sleeps, requests,
                   raw_data, transformed_data, start0>>

\* if not latest_rates:
IfNotLatestRates ==
    /\ pc = "if_not_latest_rates"
    /\ pc' = AfterSync(latest_rates)
    /\ UNCHANGED <<TODAY, json_file, redis_db, redis_up, REDIS_CLIENT,
                   latest_rates, attempt, sleeps, requests, raw_data,
                   transformed_data, exc, start0>>

\* extract_rates: an attempt whose request succeeds returns the response.
ExtractSuccess ==
    /\ pc = "extract"
    /\ InRange(attempt, max_retries)
    /\ \E resp \in Responses : raw_data' = resp
    /\ requests' = requests + 1
    /\ pc' = "if_raw_data"
    /\ UNCHANGED <<TODAY, json_file, redis_db, redis_up, REDIS_CLIENT,
                   latest_rates, attempt, sleeps, transformed_data, exc, start0>>

\* extract_rates: an attempt whose request fails is logged, then the loop
\* body sleeps wait_time and the loop goes on.
ExtractFailure ==
    /\ pc = "extract"
    /\ InRange(attempt, max_retries)
    /\ requests' = requests + 1
    /\ sleeps' = Append(sleeps, [attempt |-> attempt,
                                 wait |-> wait_time(attempt, base_delay)])
    /\ attempt' = attempt + 1
    /\ UNCHANGED <<TODAY, json_file, redis_db, redis_up, REDIS_CLIENT, pc,
                   latest_rates, raw_data, transformed_data, exc, start0>>

\* extract_rates: the loop is over, return None.
ExtractExhausted ==
    /\ pc = "extract"
    /\ ~InRange(attempt, max_retries)
    /\ raw_data' = PyNone
    /\ pc' = "if_raw_data"
    /\ UNCHANGED <<TODAY, json_file, redis_db, redis_up, REDIS_CLIENT,
                   latest_rates, attempt, sleeps, requests, transformed_data,
                   exc, start0>>

\* if raw_data:
IfRawData ==
    /\ pc = "if_raw_data"
    /\ pc' = AfterExtract(raw_data)
    /\ UNCHANGED <<TODAY, json_file, redis_db, redis_up, REDIS_CLIENT,
                   latest_rates, attempt, sleeps, requests, raw_data,
                   transformed_data, exc, start0>>

\* transformed_data = transform_data(raw_data): None has no .get
TransformData ==
    /\ pc = "transform"
    /\ IF raw_data.kind = "None"
       THEN /\ exc' = "AttributeError"
            /\ pc' = "raised"
            /\ UNCHANGED <<raw_data, transformed_data>>
       ELSE LET r == transform_data(raw_data, TODAY)
            IN  /\ transformed_data' = r.ret
                /\ raw_data' = r.data
                /\ pc' = "save_to_redis"
                /\ exc' = exc
    /\ UNCHANGED <<TODAY, json_file, redis_db, redis_up, REDIS_CLIENT,
                   latest_rates, attempt, sleeps, requests, start0>>

\* save_to_redis(transformed_data)
SaveToRedis ==
    /\ pc = "save_to_redis"
    /\ LET r == save_to_redis(REDIS_CLIENT, redis_up, redis_db, transformed_data)
       IN  /\ redis_db' = r.db
           /\ exc' = r.exc
           /\ pc' = IF r.exc # NoExc THEN "raised" ELSE "save_to_json"
    /\ UNCHANGED <<TODAY, json_file, redis_up, REDIS_CLIENT, latest_rates,
                   attempt, sleeps, requests, raw_data, transformed_data, start0>>

\* save_to_json(transformed_data)
SaveToJson ==
    /\ pc = "save_to_json"
    /\ LET r == save_to_json(json_file, transformed_data)
       IN  /\ json_file' = r.file
           /\ exc' = r.exc
           /\ pc' = IF r.exc # NoExc THEN "raised" ELSE "done"
    /\ UNCHANGED <<TODAY, redis_db, redis_up, REDIS_CLIENT, latest_rates,
                   attempt, sleeps, requests, raw_data, transformed_data, start0>>

\* ----------------------------------------------------------- the environment
\* The calendar moves on between two runs; entries are stored with a one
\* day expiry, so those of the days before the old day are gone by now.
NextDay ==
    /\ pc = "idle"
    /\ TODAY < MaxDay
    /\ TODAY' = TODAY + 1
    /\ redis_db' = [k \in {x \in DOMAIN redis_db : x >= TODAY} |-> redis_db[k]]
    /\ UNCHANGED <<json_file, redis_up, REDIS_CLIENT, pc,
                   latest_rates, attempt, sleeps, requests, raw_data,
                   transformed_data, exc, start0>>

\* A cache entry expires or is evicted between two runs.
CacheExpire ==
    /\ pc = "idle"
    /\ \E k \in DOMAIN redis_db : redis_db' = DbDel(redis_db, k)
    /\ UNCHANGED <<TODAY, json_file, redis_up, REDIS_CLIENT, pc, latest_rates,
                   attempt, sleeps, requests, raw_data, transformed_data, exc,
                   start0>>

\* The cache backend stops answering, at any time.
RedisDown ==
    /\ redis_up
    /\ redis_up' = FALSE
    /\ UNCHANGED <<TODAY, json_file, redis_db, REDIS_CLIENT, pc, latest_rates,
                   attempt, sleeps, requests, raw_data, transformed_data, exc,
                   start0>>

\* The cache backend answers again.
RedisUp ==
    /\ ~redis_up
    /\ redis_up' = TRUE
    /\ UNCHANGED <<TODAY, json_file, redis_db, REDIS_CLIENT, pc, latest_rates,
                   attempt, sleeps, requests, raw_data, transformed_data, exc,
                   start0>>

\* The document on disk is damaged between two runs: it can no longer be
\* opened, or it no longer parses.
FileDamage ==
    /\ pc = "idle"
    /\ json_file.status = "ok"
    /\ \E s \in {"unreadable", "malformed"} : json_file' = [json_file EXCEPT !.status = s]
    /\ UNCHANGED <<TODAY, redis_db, redis_up, REDIS_CLIENT, pc, latest_rates,
                   attempt, sleeps, requests, raw_data, transformed_data, exc,
                   start0>>

Next ==
    \/ Start
    \/ Exit
    \/ initialize_redis_connection
    \/ SyncDataSources
    \/ IfNotLatestRates
    \/ ExtractSuccess
    \/ ExtractFailure
    \/ ExtractExhausted
    \/ IfRawData
    \/ TransformData
    \/ SaveToRedis
    \/ SaveToJson
    \/ NextDay
    \/ CacheExpire
    \/ RedisDown
    \/ RedisUp
    \/ FileDamage

Spec == Init /\ [][Next]_vars

\* The same process where the cache backend always answers and the document
\* on disk is never damaged.
NextUp ==
    \/ Start
    \/ Exit
    \/ initialize_redis_connection
    \/ SyncDataSources
    \/ IfNotLatestRates
    \/ ExtractSuccess
    \/ ExtractFailure
    \/ ExtractExhausted
    \/ IfRawData
    \/ TransformData
    \/ SaveToRedis
    \/ SaveToJson
    \/ NextDay
    \/ CacheExpire

SpecUp == Init /\ [][NextUp]_vars

\* save_to_json on its own: any prior document, with its dates in any order,
\* or no document at all, and any snapshot.
Docs ==
    UNION {{d \in [1..n -> Days \X Mappings] :
                \A i \in 1..n : \A j \in 1..n : i # j => d[i][1] # d[j][1]} :
           n \in 0..MaxDay}

InitStore ==
    /\ TODAY \in Days
    /\ json_file \in {NoFile} \cup {File(json_dump(d)) : d \in Docs}
    /\ redis_db = EmptyDb
    /\ redis_up = TRUE
    /\ REDIS_CLIENT = "client"
    /\ pc = "save_to_json"
    /\ latest_rates = PyFalse
    /\ attempt = 0
    /\ sleeps = <<>>
    /\ requests = 0
    /\ raw_data = PyNone
    /\ transformed_data \in {Snapshot(TODAY, r) : r \in Mappings}
    /\ exc = NoExc
    /\ start0 = Stores

NextStore == SaveToJson

SpecStore == InitStore /\ [][NextStore]_vars

\* transform_data on its own: any response dict, with or without base_code
\* and rates, with any base currency and any rate mapping.
AllResponses ==
    {Response(b, TRUE, r, o) :
        b \in Currencies \cup {NoField}, r \in Mappings, o \in BOOLEAN}
    \cup {Response(b, FALSE, {}, o) : b \in Currencies \cup {NoField}, o \in BOOLEAN}

InitTransform ==
    /\ TODAY \in Days
    /\ json_file = NoFile
    /\ redis_db = EmptyDb
    /\ redis_up = TRUE
    /\ REDIS_CLIENT = "client"
    /\ pc = "transform"
    /\ latest_rates = PyFalse
    /\ attempt = 0
    /\ sleeps = <<>>
    /\ requests = 1
    /\ raw_data \in AllResponses
    /\ transformed_data = NoSnapshot
    /\ exc = NoExc
    /\ start0 = Stores

NextTransform == TransformData

SpecTransform == InitTransform /\ [][NextTransform]_vars

\* ====================================================================== claims
\* The run is past its start, so start0 holds the stores it started from.
Running == pc # "idle"
JsonHad == HasToday(start0.file, TODAY)
CacheHad == CacheHas(start0.db, TODAY)
BothIdentical ==
    /\ HasToday(json_file, TODAY)
    /\ CacheHas(redis_db, TODAY)
    /\ RecordOf(json_file, TODAY) = CacheRecord(redis_db, TODAY)

\* C1: with the cache reachable, when sync_data_sources has returned, either
\* both stores hold identical records for today or it returned False, and it
\* returned False only when neither store held today's record at the start.
C1_ReconciliationComplete ==
    (pc = "if_not_latest_rates" /\ REDIS_CLIENT = "client") =>
        /\ BothIdentical \/ latest_rates = PyFalse
        /\ latest_rates = PyFalse => (~JsonHad /\ ~CacheHad)

\* C2: a run makes no request to the remote source when the durable store,
\* or the cache it is connected to, held a record for today at its start,
\* whatever that record is.
C2_NoFetchWhenStored ==
    (Running /\ (JsonHad \/ (CacheHad /\ REDIS_CLIENT = "client"))) => requests = 0

\* C3: a run that starts with today's record in the durable store (as a run
\* does that follows one which ended with it there) leaves the durable
\* document exactly as it found it, and leaves the content of an existing
\* cache entry for today as it found it.
C3_SecondRunChangesNothing ==
    (Running /\ JsonHad) =>
        /\ json_file = start0.file
        /\ CacheHad => (CacheHas(redis_db, TODAY) /\ redis_db[TODAY] = start0.db[TODAY])

\* C3 witness: such a run fetched, transformed and called both writes, and
\* has ended.
C3_Witness ==
    /\ pc = "done"
    /\ JsonHad
    /\ transformed_data # NoSnapshot
    /\ transformed_data.rec # RecordOf(start0.file, TODAY)

\* C4: from empty stores, with the cache reachable, at the end of every run
\* in which both stores hold a record for today, the two records are equal.
C4_StoresAgreeAtEnd ==
    (pc = "done" /\ HasToday(json_file, TODAY) /\ CacheHas(redis_db, TODAY)) =>
        RecordOf(json_file, TODAY) = CacheRecord(redis_db, TODAY)

\* extract_rates has returned after max_retries failed attempts.
FetchExhausted ==
    /\ attempt = max_retries
    /\ pc \in {"if_raw_data", "transform", "save_to_redis", "save_to_json", "done", "raised"}

\* C5: in a run where neither store had today's record and every attempt
\* failed, no exception is raised, nothing after extract_rates runs, and both
\* stores are as they were at the start.
C5_NoPartialWrites ==
    (FetchExhausted /\ ~JsonHad /\ ~CacheHad) =>
        /\ exc = NoExc
        /\ pc \in {"if_raw_data", "done"}
        /\ Stores = start0

\* C5 witness: a run that made max_retries requests, all failed, has ended.
C5_Witness ==
    /\ pc = "done"
    /\ FetchExhausted
    /\ requests = max_retries
    /\ ~JsonHad /\ ~CacheHad

\* C6: when the connection attempt failed (REDIS_CLIENT is None), nothing
\* raises, the cache is not written, no request is made if the durable store
\* had today's record, and otherwise a run whose fetch succeeded ends with
\* the transformed record for today in the durable store.
C6_GracefulDegradation ==
    (pc \notin {"idle", "initialize_redis_connection"} /\ REDIS_CLIENT = "None") =>
        /\ exc # "ConnectionError"
        /\ redis_db = start0.db
        /\ JsonHad => requests = 0
        /\ (pc = "done" /\ ~JsonHad /\ start0.file.status \in {"absent", "ok"}
                /\ raw_data.kind = "dict") =>
               /\ HasToday(json_file, TODAY)
               /\ RecordOf(json_file, TODAY) = transform_data(raw_data, TODAY).ret.rec

\* C7: a cache backend failure after a successful connect never raises.
C7_CacheFailureNeverRaises ==
    REDIS_CLIENT = "client" => exc # "ConnectionError"

\* C8: when the document on disk cannot be read or does not parse, no
\* exception is raised by the existence check or by the durable write, and a
\* run that fetched a response ends with the fresh record in the durable
\* store.
C8_DurableReadFailureDegrades ==
    (Running /\ start0.file.status \in {"unreadable", "malformed"}) =>
        /\ exc \notin {"JSONDecodeError", "IOError"}
        /\ (pc = "done" /\ RawTruthy(raw_data)) => HasToday(json_file, TODAY)

\* The snapshot's date is the last key of the document the write started from.
LastKeyIsDate ==
    /\ start0.file.status = "ok"
    /\ Len(start0.file.text) > 0
    /\ start0.file.text[Len(start0.file.text)][1] = transformed_data.date

\* C9 as stated: after save_to_json, reading the snapshot's date back from
\* the durable store yields the record that was written.
C9_RoundTrip ==
    pc = "done" =>
        /\ HasToday(json_file, transformed_data.date)
        /\ RecordOf(json_file, transformed_data.date) = transformed_data.rec

\* C9 amended: that holds when the snapshot's date is not the last key of the
\* prior document; when it is, the document is left as it was, so reading
\* the date back yields the record stored before.
C9_RoundTripUnlessLastKey ==
    pc = "done" =>
        IF LastKeyIsDate
        THEN json_file = start0.file
        ELSE /\ HasToday(json_file, transformed_data.date)
             /\ RecordOf(json_file, transformed_data.date) = transformed_data.rec

\* C9 witness: the write added the date to a document that held other dates
\* only, and the record read back is the non-empty record written.
C9_Witness ==
    /\ pc = "done"
    /\ start0.file.status = "ok"
    /\ Len(start0.file.text) > 0
    /\ ~HasToday(start0.file, transformed_data.date)
    /\ transformed_data.rec # {}
    /\ RecordOf(json_file, transformed_data.date) = transformed_data.rec

\* C10: the delays slept by extract_rates start at base_delay and double with
\* each retry: the sleep before retry i (counted from 0), which follows the
\* failed attempt with loop index i, is base_delay * 2^i.
C10_BackoffSchedule ==
    /\ \A i \in 1..Len(sleeps) :
          /\ sleeps[i].attempt = i - 1
          /\ sleeps[i].wait = base_delay * 2 ^ (i - 1)
    /\ Len(sleeps) > 0 => sleeps[1].wait = base_delay
    /\ \A i \in 1..(Len(sleeps) - 1) : sleeps[i + 1].wait = 2 * sleeps[i].wait

\* C10 witness: a run that has slept after every one of its attempts.
C10_Witness == Len(sleeps) = max_retries

\* C11: extract_rates makes at most max_retries requests and raises nothing;
\* when it has returned, it returned None exactly when max_retries requests
\* were made and every one failed, and otherwise it returned the response of
\* its first successful request, which was its last request.
C11_BoundedRetry ==
    /\ requests <= max_retries
    /\ pc \in {"extract", "if_raw_data"} => exc = NoExc
    /\ pc = "if_raw_data" =>
          /\ raw_data = PyNone <=> (requests = max_retries /\ Len(sleeps) = requests)
          /\ raw_data # PyNone => (raw_data \in Responses /\ Len(sleeps) = requests - 1)

\* C11 witness: extract_rates returned the response of its third request.
C11_Witness ==
    /\ pc = "if_raw_data"
    /\ raw_data # PyNone
    /\ requests = 3

\* C12: transform_data returns, without failing, a snapshot keyed by TODAY
\* whose record holds exactly the entries of the response's rates whose
\* currency is not the response's base_code; when the base currency is not
\* in the mapping, or base_code or rates is missing, the record is the whole
\* mapping (empty when rates is missing).
C12_BaseCurrencyElision ==
    [][pc = "transform" =>
        LET rates == IF raw_data.has_rates THEN raw_data.rates ELSE {}
            base == raw_data.base_code
        IN  /\ pc' = "save_to_redis"
            /\ exc' = NoExc
            /\ transformed_data'.date = TODAY
            /\ transformed_data'.rec \subseteq rates
            /\ \A p \in rates : p \in transformed_data'.rec <=> p[1] # base
            /\ (base = NoField \/ ~raw_data.has_rates
                    \/ base \notin {p[1] : p \in rates}) =>
                   transformed_data'.rec = rates]_vars

\* C12 witness: a response with base_code EUR was transformed and the
\* record is the USD entry alone.
C12_Witness ==
    /\ pc = "save_to_redis"
    /\ raw_data.base_code = "EUR"
    /\ raw_data.has_rates
    /\ transformed_data = Snapshot(TODAY, {<<"USD", 2>>})

\* The document a write started from, as json.load gives it ({} when the
\* file did not exist), and the document on disk now.
OldData == IF start0.file.status = "absent" THEN <<>> ELSE json_load(start0.file.text)
NewData == json_load(json_file.text)

\* C13: save_to_json leaves the document as it was when its last key is the
\* snapshot's date; otherwise it rewrites it as the old document with the
\* snapshot's date mapped to the new record: the old keys in their order,
\* the date added at the end when it is new, every other date's record kept.
C13_DedupGuard ==
    pc = "done" =>
        IF Len(OldData) > 0 /\ OldData[Len(OldData)][1] = transformed_data.date
        THEN json_file = start0.file
        ELSE /\ json_file.status = "ok"
             /\ DictKeys(NewData) = DictKeys(OldData) \cup {transformed_data.date}
             /\ Len(NewData) = Cardinality(DictKeys(NewData))
             /\ \A i \in 1..Len(OldData) : NewData[i][1] = OldData[i][1]
             /\ \A i \in 1..Len(NewData) :
                   NewData[i][2] = IF NewData[i][1] = transformed_data.date
                                   THEN transformed_data.rec
                                   ELSE OldData[i][2]

\* C13 witness: the date was a key of the old document, not its last one,
\* with another record, and the write replaced that record.
C13_Witness ==
    /\ pc = "done"
    /\ start0.file.status = "ok"
    /\ transformed_data.date \in DictKeys(OldData)
    /\ OldData[Len(OldData)][1] # transformed_data.date
    /\ DictGet(OldData, transformed_data.date) # transformed_data.rec
    /\ DictGet(NewData, transformed_data.date) = transformed_data.rec

\* The two stores held the same record for today when the run started.
AgreedAtStart ==
    /\ JsonHad
    /\ CacheHad
    /\ RecordOf(start0.file, TODAY) = CacheRecord(start0.db, TODAY)

\* C14: a run that starts with the same record for today in the durable
\* store and in the cache makes no request and leaves today's record in both
\* stores as it found it.
C14_ImmutableOnceAgreed ==
    (Running /\ AgreedAtStart) =>
        /\ requests = 0
        /\ HasToday(json_file, TODAY)
        /\ RecordOf(json_file, TODAY) = RecordOf(start0.file, TODAY)
        /\ CacheHas(redis_db, TODAY)
        /\ CacheRecord(redis_db, TODAY) = CacheRecord(start0.db, TODAY)

\* The part of C14 about the stores alone.
C14_RecordsKept ==
    (Running /\ AgreedAtStart) =>
        /\ HasToday(json_file, TODAY)
        /\ RecordOf(json_file, TODAY) = RecordOf(start0.file, TODAY)
        /\ CacheHas(redis_db, TODAY)
        /\ CacheRecord(redis_db, TODAY) = CacheRecord(start0.db, TODAY)

\* The document on disk when the run started ({} when there was no file or
\* it could not be read as a document).
StartData == IF start0.file.status = "ok" THEN json_load(start0.file.text) ELSE <<>>

\* C15: during and after a run, whichever branch it takes and whether or not
\* it raises, every date key the durable document had at the start is still
\* in it, and the record under every date other than today is the one it
\* had at the start.
C15_DurableEntriesPersist ==
    Running =>
        \A d \in DictKeys(StartData) :
            /\ HasToday(json_file, d)
            /\ d # TODAY => RecordOf(json_file, d) = DictGet(StartData, d)

\* C15 witness: a run on day 2 found a document with day 1 and no day 2,
\* fetched, and wrote day 2 to the document.
C15_Witness ==
    /\ pc = "done"
    /\ TODAY = 2
    /\ DictKeys(StartData) = {1}
    /\ requests > 0
    /\ HasToday(json_file, 2)

\* C16: when extract_rates has returned, every sleep it made was followed by
\* another attempt, so it slept once less than it made requests; when all
\* max_retries attempts failed it slept max_retries - 1 times.
C16_SleepOnlyBetweenAttempts ==
    pc \in {"if_raw_data", "transform", "save_to_redis", "save_to_json", "done", "raised"} =>
        /\ requests > 0 => Len(sleeps) = requests - 1
        /\ FetchExhausted => Len(sleeps) = max_retries - 1

\* What the loop does when all attempts fail: one sleep after each of them,
\* the last one included.
C16_SleepAfterEveryFailure ==
    FetchExhausted =>
        /\ Len(sleeps) = max_retries
        /\ sleeps[max_retries] =
               [attempt |-> max_retries - 1, wait |-> (2 ^ (max_retries - 1)) * base_delay]

\* Both stores hold the record for today.
BothHold(rec) ==
    /\ HasToday(json_file, TODAY)
    /\ RecordOf(json_file, TODAY) = rec
    /\ CacheHas(redis_db, TODAY)
    /\ CacheRecord(redis_db, TODAY) = rec

\* A run that found today's record in neither store and fetched a response.
FetchedFresh ==
    /\ pc = "done"
    /\ ~JsonHad
    /\ ~CacheHad
    /\ start0.file.status \in {"absent", "ok"}
    /\ raw_data # PyNone

\* C17: with the cache reachable, a run that found today's record in
\* neither store and fetched a response, whatever fields it has or lacks,
\* ends without an exception and with the transformed record for today in
\* both stores.
C17_PermissiveResponses ==
    FetchedFresh =>
        /\ exc = NoExc
        /\ BothHold(transform_data(raw_data, TODAY).ret.rec)

\* The part of C17 that holds: the same for every response but the empty
\* object.
C17_NonEmptyResponsesStored ==
    (FetchedFresh /\ RawTruthy(raw_data)) =>
        /\ exc = NoExc
        /\ transformed_data = transform_data(raw_data, TODAY).ret
        /\ BothHold(transformed_data.rec)

\* C18: the response passed to transform_data, its rate mapping included,
\* is the same after the call as before it.
C18_TransformNoSideEffects ==
    [][pc = "transform" => raw_data' = raw_data]_vars

\* What the call does to the response: the entry of the base currency is
\* gone from its rate mapping, everything else is as it was.
C18_TransformDeletesBaseEntry ==
    [][pc = "transform" =>
        /\ raw_data' = [raw_data EXCEPT
                            !.rates = {p \in raw_data.rates : p[1] # raw_data.base_code}]
        /\ raw_data' # raw_data <=>
               (raw_data.has_rates /\ raw_data.base_code \in {p[1] : p \in raw_data.rates})]_vars

====
